---- MODULE Spec2Model ----
(***************************************************************************)
(* A model of the koa-template image-compression service: the lazy loader  *)
(* of the sharp capability (loadSharp / getSharp), and the POST /compress  *)
(* and POST /compress/upload handlers, in the three builds of the entry    *)
(* file the repository holds:                                              *)
(*   "async"  node-functions/koa/[[default]].js   (async loadSharp)        *)
(*   "get"    unnamed/part_001, lines 1-437       (getSharp)               *)
(*   "sync"   unnamed/part_001, lines 439-896     (sync loadSharp)         *)
(* JavaScript strings are sequences of one-character strings, so that      *)
(* toLowerCase, parseInt and template strings are computed, not assumed.   *)
(***************************************************************************)
EXTENDS Integers, Sequences, FiniteSets, TLC

\* ------------------------------------------------------------------ bounds

\* Number of requests that can be in flight at once (Spec).
MaxReq == 2
\* Cap on the length of the log of load attempts (getSharp retries forever).
MaxAttempts == 4
\* Number of chunks a readable request stream may yield.
MaxChunks == 1
\* Largest original size, in bytes (32 gives a ratio half-way between two
\* hundredths), and largest output size (an output can exceed its original).
MaxSize == 32
MaxOut == 40
\* Longest text of basic-auth credentials enumerated in full.
MaxAuth == 4
\* The cap of waitForSharpSync and its polling interval, in units of time
\* (the code: maxWaitMs = 10000 and checkInterval = 50, in ms), chosen so that
\* the cap falls inside an interval; and the number of processes started in
\* turn.
MaxWait == 3
CheckInterval == 2
MaxBoots == 3

\* ------------------------------------------------------- JavaScript values

Undef == [t |-> "undefined"]
JsNull == [t |-> "null"]
\* A JSON number, kept as the text String(x) gives for it.
Num(s) == [t |-> "number", s |-> s]
Str(s) == [t |-> "string", s |-> s]
\* Values of the Number type that parseInt and Math.min/max yield: an integer,
\* or NaN.
Int_(n) == [nan |-> FALSE, v |-> n]
NaN == [nan |-> TRUE, v |-> 0]

\* Truthiness of a value, as `x ? a : b`, `!x` and `x || y` read it.
Truthy(v) ==
  CASE v.t = "undefined" -> FALSE
    [] v.t = "null" -> FALSE
    [] v.t = "number" -> v.s \notin {<<"0">>, <<"N", "a", "N">>}
    [] v.t = "string" -> Len(v.s) > 0
    [] OTHER -> TRUE

\* a || b || c
Or3(a, b, c) == IF Truthy(a) THEN a ELSE IF Truthy(b) THEN b ELSE c

\* a || b
Or2(a, b) == IF Truthy(a) THEN a ELSE b

\* String(v): the text parseInt reads.
JsString(v) ==
  CASE v.t = "undefined" -> <<"u", "n", "d", "e", "f", "i", "n", "e", "d">>
    [] v.t = "null" -> <<"n", "u", "l", "l">>
    [] OTHER -> v.s

DigitVal ==
  [c \in {"0", "1", "2", "3", "4", "5", "6", "7", "8", "9"} |->
     CASE c = "0" -> 0 [] c = "1" -> 1 [] c = "2" -> 2 [] c = "3" -> 3
       [] c = "4" -> 4 [] c = "5" -> 5 [] c = "6" -> 6 [] c = "7" -> 7
       [] c = "8" -> 8 [] c = "9" -> 9]

RECURSIVE SkipSpace(_)
SkipSpace(s) ==
  IF Len(s) > 0 /\ Head(s) = " " THEN SkipSpace(Tail(s)) ELSE s

\* The value of the longest prefix of decimal digits of s, given the value
\* acc and the count n of the digits already read; NaN when there is none.
RECURSIVE Digits(_, _, _)
Digits(s, acc, n) ==
  IF Len(s) > 0 /\ Head(s) \in DOMAIN DigitVal
    THEN Digits(Tail(s), 10 * acc + DigitVal[Head(s)], n + 1)
    ELSE IF n = 0 THEN NaN ELSE Int_(acc)

\* parseInt(v) with no radix: String(v), leading white space skipped, an
\* optional sign, then the longest prefix of decimal digits.  (A "0x" prefix
\* selects radix 16; no input of the model carries one.)
ParseInt(v) ==
  LET s == SkipSpace(JsString(v))
      neg == Len(s) > 0 /\ Head(s) = "-"
      body == IF Len(s) > 0 /\ Head(s) \in {"-", "+"} THEN Tail(s) ELSE s
      mag == Digits(body, 0, 0)
  IN IF mag.nan THEN NaN ELSE IF neg THEN Int_(0 - mag.v) ELSE mag

\* Math.min(a, b) and Math.max(a, b): NaN when either argument is NaN.
MathMin(a, b) == IF a.nan \/ b.nan THEN NaN ELSE IF a.v < b.v THEN a ELSE b

MathMax(a, b) == IF a.nan \/ b.nan THEN NaN ELSE IF a.v > b.v THEN a ELSE b

\* Math.max(1, Math.min(100, parseInt(quality)))
QualityNum(quality) == MathMax(Int_(1), MathMin(Int_(100), ParseInt(quality)))

LowerOf ==
  [c \in {"P", "N", "G", "W", "E", "B", "J", "I", "F"} |->
     CASE c = "P" -> "p" [] c = "N" -> "n" [] c = "G" -> "g" [] c = "W" -> "w"
       [] c = "E" -> "e" [] c = "B" -> "b" [] c = "J" -> "j" [] c = "I" -> "i"
       [] c = "F" -> "f"]

\* s.toLowerCase()
ToLowerCase(s) ==
  [i \in 1..Len(s) |-> IF s[i] \in DOMAIN LowerOf THEN LowerOf[s[i]] ELSE s[i]]

\* ------------------------------------------------------------------ state

VARIABLES
  variant,      \* which build of the entry file runs: "async", "get", "sync"
  isDev,        \* the sync build's isDev flag (the other builds always log)
  env,          \* the load strategies that succeed in this deployment
  sharp,        \* module-level `sharp`: "null", or the strategy that loaded it
  sharpError,   \* module-level `sharpError`: "null", or the error retained
  sharpLoaded,  \* module-level `sharpLoaded`
  attempts,     \* log of the load attempts made (import / require calls)
  reqs,         \* the requests in flight: position, input, loader result, response
  failedWith,   \* history: the error of the first loader call in which every strategy failed
  sent503,      \* history: some request has been answered 503
  originalSize,    \* imageBuffer.length of the compression being answered
  compressedSize,  \* outputBuffer.length of that compression
  ratioHeader,     \* the X-Compression-Ratio header set for it
  proxyPc,      \* curlProxy: "idle", "awaitAxios" or "done"
  parsed,       \* history: the descriptor as parseCurlCommand returned it
  request,      \* curlProxy's `request`: that descriptor object, as it is now
  axiosConfig,  \* curlProxy's `axiosConfig`: null, or the converted configuration
  outcome,      \* history: what the parser and axios did in this call
  ctx,          \* what curlProxy has set on ctx: status, Content-Type, body
  stage,        \* where a request stands in the middleware chain
  inbound,      \* that request: route, JSON body, what its handler does
  thrown,       \* the exception in flight or last raised: where, its status
  reply,        \* who answered the request, and the answer
  sharpNative,     \* sharp.js: `sharpNative`: "null" or "module"
  loadingPromise,  \* sharp.js: `loadingPromise`: "null" or "pending"
  loaderPc,     \* where the call of loadSharpFromRemote and its promise stand
  net,          \* the download's response: "none", "inflight", or how it arrived
  tmpFile,      \* the file at tmpPath: "absent", "good" (loads) or "corrupt"
  trail,        \* history of this process: file found, unlink, fetch calls, write
  facade,       \* the property access on the exported Proxy, if one is being made
  disk,         \* the working directory on disk, as the directory walk finds it
  page          \* the last directory tree built, and the answer of GET / if it asked

\* The state of the entry file's loader and routes.
entryVars ==
  <<variant, isDev, env, sharp, sharpError, sharpLoaded, attempts, reqs,
    failedWith, sent503>>

\* The sizes and the ratio header of a successful compression.
sizeVars == <<originalSize, compressedSize, ratioHeader>>

\* The state of a call of curlProxy.
curlVars == <<proxyPc, parsed, request, axiosConfig, outcome, ctx>>

\* The state of a request's passage through the middleware chain.
chainVars == <<stage, inbound, thrown, reply>>

\* The state of the remote loader (lib/sharp/lib/sharp.js) and of the
\* temporary directory.
remoteVars == <<sharpNative, loadingPromise, loaderPc, net, tmpFile, trail, facade>>

\* The state outside the entry file's loader and routes.
\* The working directory and the tree built from it.
treeVars == <<disk, page>>

otherVars == <<sizeVars, curlVars, chainVars, remoteVars, treeVars>>

vars == <<entryVars, otherVars>>

Variants == {"async", "get", "sync"}

\* ----------------------------------------------------------------- loader

\* The load strategies of each build, in the order its loader tries them.
Strategies(v) ==
  CASE v = "async" -> <<"import", "rel1", "rel2", "rel3", "abs1", "abs2", "npm">>
    [] v = "sync" -> <<"local", "npm">>
    [] v = "get" -> <<"import">>

\* The error a failed strategy raises.
ErrorOf(strategy) == <<"error", strategy>>

NoError == <<"null">>

\* The deployments considered: nothing loads, or the k-th strategy and all
\* later ones load (so that a loader that went on after a success would show).
Envs(v) ==
  {{}} \cup
  {{Strategies(v)[j] : j \in k..Len(Strategies(v))} : k \in 1..Len(Strategies(v))}

\* A faulty variant of TriedFrom: the strategies after a success are tried too.
TriedFromAll(strats, k, e) ==
  [j \in 1..(Len(strats) + 1 - k) |-> strats[k + j - 1]]

\* The strategies of `strats` tried from position k on, up to and including
\* the first that succeeds.
RECURSIVE TriedFrom(_, _, _)
TriedFrom(strats, k, e) ==
  IF k > Len(strats) THEN <<>>
  ELSE IF strats[k] \in e THEN <<strats[k]>>
  ELSE <<strats[k]>> \o TriedFrom(strats, k + 1, e)

\* What a run of the try/catch chain from strategy k on leaves in the module
\* state: the strategies tried, `sharp` and `sharpError`.  The error kept is
\* the one that reaches the outer catch: that of the last strategy (npm).
LoadChain(strats, k, e) ==
  LET tried == TriedFrom(strats, k, e)
      last == IF Len(tried) = 0 THEN strats[Len(strats)] ELSE tried[Len(tried)]
      ok == Len(tried) > 0 /\ last \in e
  IN [tried |-> tried,
      sharp |-> IF ok THEN last ELSE "null",
      sharpError |-> IF ok THEN NoError ELSE ErrorOf(last)]

\* What a call of the loader hands to its caller.
NoRes == [called |-> FALSE, sharp |-> "null", sharpError |-> NoError, threw |-> FALSE]

Res(s, e, threw) == [called |-> TRUE, sharp |-> s, sharpError |-> e, threw |-> threw]

\* `if (sharpLoaded) return { sharp, sharpError }` (loadSharp), and
\* `if (sharp) return sharp` (getSharp): the call returns what is cached.
Cached(v) ==
  IF v = "get" THEN sharp # "null" ELSE sharpLoaded

\* --------------------------------------------------------------- requests

\* Upload sources: ctx.request.files.file and ctx.request.body.file.
NoFile == [k |-> "undefined"]
Buf(n) == [k |-> "Buffer", len |-> n]
HasBuffer(n) == [k |-> "hasBuffer", len |-> n]
HasData(n) == [k |-> "hasData", len |-> n]
PlainObject == [k |-> "plain"]

\* ctx.request.body of an upload: undefined, a Buffer, or a parsed object.
NoBody == [k |-> "undefined"]
BodyObject(q, f, file) == [k |-> "object", quality |-> q, format |-> f, file |-> file]

\* ctx.request.body?.quality, ?.format, ?.file, ?.width, ?.height
BodyField(body, name) ==
  IF body.k = "object" /\ name \in DOMAIN body THEN body[name] ELSE Undef

BodyFile(body) == IF body.k = "object" THEN body.file ELSE NoFile

\* The bytes a file-like value holds, as the if / else-if chain of the upload
\* handler reads them: a Buffer itself, else file.buffer, else
\* Buffer.from(file.data), else nothing (imageBuffer stays undefined).
NoBytes == [set |-> FALSE, len |-> 0]
Bytes(n) == [set |-> TRUE, len |-> n]

FileBytes(file) ==
  CASE file.k = "Buffer" -> Bytes(file.len)
    [] file.k = "hasBuffer" -> Bytes(file.len)
    [] file.k = "hasData" -> Bytes(file.len)
    [] OTHER -> NoBytes


\* A faulty variant of UploadBytes: a source that yields no bytes gives way
\* to the next one.
UploadBytesFallThrough(in) ==
  IF in.stream.readable /\ in.stream.chunks > 0 THEN Bytes(in.stream.chunks)
  ELSE IF in.files.k # "undefined" /\ FileBytes(in.files).set THEN FileBytes(in.files)
  ELSE IF in.body.k = "Buffer" THEN Bytes(in.body.len)
  ELSE IF BodyFile(in.body).k # "undefined" THEN FileBytes(BodyFile(in.body))
  ELSE NoBytes

\* The imageBuffer of an upload: the readable request stream, else
\* files.file, else a Buffer body, else body.file.
UploadBytes(in) ==
  IF in.stream.readable
    THEN IF in.stream.chunks > 0 THEN Bytes(in.stream.chunks) ELSE NoBytes
  ELSE IF in.files.k # "undefined" THEN FileBytes(in.files)
  ELSE IF in.body.k = "Buffer" THEN Bytes(in.body.len)
  ELSE IF BodyFile(in.body).k # "undefined" THEN FileBytes(BodyFile(in.body))
  ELSE NoBytes

\* A faulty variant of EmptyUpload: the length of the buffer is not looked at.
EmptyUploadUnset(bytes) == ~bytes.set

\* `!imageBuffer || imageBuffer.length === 0`
EmptyUpload(bytes) == ~bytes.set \/ bytes.len = 0

\* A faulty variant of MissingSource: only an undefined source counts as missing.
MissingSourceStrict(in) == in.url = Undef /\ in.base64 = Undef

\* `!url && !base64`
MissingSource(in) == ~Truthy(in.url) /\ ~Truthy(in.base64)

\* The defaults of the destructuring `{ quality = 80, format = 'png' }`: they
\* replace undefined only.
Default(v, d) == IF v = Undef THEN d ELSE v

Eighty == Num(<<"8", "0">>)
Png == <<"p", "n", "g">>
Jpeg == <<"j", "p", "e", "g">>
Webp == <<"w", "e", "b", "p">>

\* The request parameters as each route reads them.
QualityOf(in) ==
  IF in.route = "compress" THEN Default(in.quality, Eighty)
  ELSE Or3(in.quality, BodyField(in.body, "quality"), Eighty)

WidthOf(in) ==
  IF in.route = "compress" THEN in.width
  ELSE Or2(in.width, BodyField(in.body, "width"))

HeightOf(in) ==
  IF in.route = "compress" THEN in.height
  ELSE Or2(in.height, BodyField(in.body, "height"))

\* `format` before any toLowerCase: the body field or 'png' on /compress, the
\* query or body field or 'jpeg' on /compress/upload.
FormatOf(in) ==
  IF in.route = "compress" THEN Default(in.format, Str(Png))
  ELSE Or3(in.format, BodyField(in.body, "format"), Str(Jpeg))

\* A faulty variant of EncoderFor: the switch reads `format` as given.
EncoderForExact(fmt) ==
  IF fmt = Webp THEN "webp" ELSE IF fmt = Png THEN "png" ELSE "jpeg"

\* The encoder the switch on format.toLowerCase() selects.
EncoderFor(fmt) ==
  LET f == ToLowerCase(fmt)
  IN IF f = Webp THEN "webp" ELSE IF f = Png THEN "png" ELSE "jpeg"

\* The format string the Content-Type template reads: `format` itself on
\* /compress, the lower-cased `format` on /compress/upload.
HeaderFormat(in) ==
  IF in.route = "compress" THEN FormatOf(in).s ELSE ToLowerCase(FormatOf(in).s)

\* `image/${format === 'jpeg' ? 'jpeg' : format}`
ContentType(format) ==
  <<"i", "m", "a", "g", "e", "/">> \o (IF format = Jpeg THEN Jpeg ELSE format)

\* A faulty variant of WantsResize: both dimensions are required.
WantsResizeBoth(width, height) == Truthy(width) /\ Truthy(height)

\* `if (width || height)`
WantsResize(width, height) == Truthy(width) \/ Truthy(height)

\* An argument of resize: `width ? parseInt(width) : undefined` (null on upload).
NoDim == [given |-> FALSE, n |-> NaN]
DimArg(v) == IF Truthy(v) THEN [given |-> TRUE, n |-> ParseInt(v)] ELSE NoDim

NoResize ==
  [called |-> FALSE, w |-> NoDim, h |-> NoDim, fit |-> "none",
   withoutEnlargement |-> FALSE]

ResizeCall(width, height) ==
  [called |-> TRUE, w |-> DimArg(width), h |-> DimArg(height), fit |-> "inside",
   withoutEnlargement |-> TRUE]

\* -------------------------------------------------------------- responses

\* What a handler leaves behind: the response, and the calls it made to the
\* outside (fetch, the image capability) with their arguments.
Out(status, kind, fetches, sharpCalls, resize, encoder, quality, ctype, escaped) ==
  [status |-> status, kind |-> kind, fetches |-> fetches,
   sharpCalls |-> sharpCalls, resize |-> resize, encoder |-> encoder,
   quality |-> quality, ctype |-> ctype, escaped |-> escaped]

NoOut == Out(0, "none", 0, 0, NoResize, "none", NaN, <<>>, FALSE)

\* The handler stands at its call of the loader.
AtLoader == Out(0, "loader", 0, 0, NoResize, "none", NaN, <<>>, FALSE)

\* A response that involved neither a fetch nor the capability.
Plain(status, kind) == Out(status, kind, 0, 0, NoResize, "none", NaN, <<>>, FALSE)

\* The handler's own catch: ctx.status = 500, body { error, message }.
Caught(fetches, sharpCalls, resize, encoder, quality) ==
  Out(500, "failed", fetches, sharpCalls, resize, encoder, quality, <<>>, FALSE)

\* The error-handling middleware: `err.status || 500`, body { error, status, .. }.
\* The exceptions raised in the handlers carry no status.
Middleware == Out(500, "middleware", 0, 0, NoResize, "none", NaN, <<>>, TRUE)

\* sharpModule(imageBuffer), the optional resize, the clamped quality, the
\* encoder chosen by format.toLowerCase(), the two metadata() calls, and the
\* headers.  The capability is opaque: in.world = "sharpThrows" makes its
\* toBuffer() reject.
Encode(in, fetches) ==
  LET rs == IF WantsResize(WidthOf(in), HeightOf(in))
              THEN ResizeCall(WidthOf(in), HeightOf(in)) ELSE NoResize
      q == QualityNum(QualityOf(in))
      fmt == FormatOf(in)
  IN IF fmt.t # "string" THEN Caught(fetches, 1, rs, "none", NaN)
     ELSE IF in.world = "sharpThrows"
       THEN Caught(fetches, 1, rs, EncoderFor(fmt.s), q)
     ELSE Out(200, "image", fetches, 3, rs, EncoderFor(fmt.s), q,
              ContentType(HeaderFormat(in)), FALSE)

\* The 503 answer of the loadSharp builds: `if (!sharpModule)`.
Unavailable(res) == res.sharp = "null"

\* The console.log of the request parameters calls url.substring when url is
\* truthy; it stands outside the handler's try.  The sync build logs only
\* when isDev.
LogsUrl(v) == v # "sync" \/ isDev

\* A faulty variant of Fetched: response.ok is not looked at.
FetchedUnchecked(in) ==
  IF Truthy(in.url)
    THEN IF in.url.t # "string" \/ in.world = "fetchReject" THEN "rejected" ELSE "bytes"
  ELSE IF in.base64.t # "string" THEN "typeError" ELSE "bytes"

\* The bytes of a /compress request: the fetched url if url is truthy, else
\* the decoded base64.  "bytes" on success, else the failure.
Fetched(in) ==
  IF Truthy(in.url)
    THEN IF in.url.t # "string" \/ in.world = "fetchReject" THEN "rejected"
         ELSE IF in.world = "fetchNotOk" THEN "notOk" ELSE "bytes"
  ELSE IF in.base64.t # "string" THEN "typeError" ELSE "bytes"

FetchCount(in) == IF Truthy(in.url) THEN 1 ELSE 0

\* POST /compress, given what the loader returned (NoRes: not yet called).
Compress(v, in, res) ==
  IF LogsUrl(v) /\ Truthy(in.url) /\ in.url.t # "string" THEN Middleware
  ELSE IF MissingSource(in) THEN Plain(400, "missing")
  ELSE IF v = "get"
    THEN IF Fetched(in) # "bytes"
           THEN Caught(FetchCount(in), 0, NoResize, "none", NaN)
         ELSE IF ~res.called THEN AtLoader
         ELSE IF res.threw THEN Caught(FetchCount(in), 0, NoResize, "none", NaN)
         ELSE Encode(in, FetchCount(in))
  ELSE IF ~res.called THEN AtLoader
  ELSE IF Unavailable(res) THEN Plain(503, "unavailable")
  ELSE IF Fetched(in) # "bytes"
    THEN Caught(FetchCount(in), 0, NoResize, "none", NaN)
  ELSE Encode(in, FetchCount(in))

\* The part of POST /compress/upload inside its try, up to the bytes: the
\* parameters (format.toLowerCase() throws on a non-string), then the stream.
UploadPayload(in) ==
  IF FormatOf(in).t # "string" THEN "typeError"
  ELSE IF in.stream.readable /\ in.world = "streamError" THEN "streamError"
  ELSE IF EmptyUpload(UploadBytes(in)) THEN "empty"
  ELSE "bytes"

\* POST /compress/upload, given what the loader returned.
Upload(v, in, res) ==
  IF v = "get"
    THEN IF UploadPayload(in) \in {"typeError", "streamError"}
           THEN Caught(0, 0, NoResize, "none", NaN)
         ELSE IF UploadPayload(in) = "empty" THEN Plain(400, "empty")
         ELSE IF ~res.called THEN AtLoader
         ELSE IF res.threw THEN Caught(0, 0, NoResize, "none", NaN)
         ELSE Encode(in, 0)
  ELSE IF ~res.called THEN AtLoader
  ELSE IF Unavailable(res) THEN Plain(503, "unavailable")
  ELSE IF UploadPayload(in) \in {"typeError", "streamError"}
    THEN Caught(0, 0, NoResize, "none", NaN)
  ELSE IF UploadPayload(in) = "empty" THEN Plain(400, "empty")
  ELSE Encode(in, 0)

\* A faulty variant of Root: GET / consults the loader in every build.
RootLoads(v, in, res) ==
  IF ~res.called THEN AtLoader ELSE Plain(200, "info")

\* GET /: the loadSharp builds report the capability's status.
Root(v, in, res) ==
  IF v # "get" /\ ~res.called THEN AtLoader ELSE Plain(200, "info")

Handle(v, in, res) ==
  CASE in.route = "compress" -> Compress(v, in, res)
    [] in.route = "upload" -> Upload(v, in, res)
    [] OTHER -> Root(v, in, res)

\* ----------------------------------------------------------------- inputs

NoInput == [route |-> "none"]
NoStream == [readable |-> FALSE, chunks |-> 0]
Readable(n) == [readable |-> TRUE, chunks |-> n]

SomeUrl == Str(<<"u">>)
SomeBase64 == Str(<<"b">>)

\* A request: the route, the parameters (the JSON body's on /compress, the
\* query's on /compress/upload), the upload sources, and how the outside
\* answers this request (fetch, the request stream, the capability).
Request(route, url, base64, quality, width, height, format, body, files, stream, world) ==
  [route |-> route, url |-> url, base64 |-> base64, quality |-> quality,
   width |-> width, height |-> height, format |-> format, body |-> body,
   files |-> files, stream |-> stream, world |-> world]

\* The (url, base64, world) of the /compress requests considered: no source,
\* an empty url, base64 alone, a url alone, both, and a url that is a number.
CompressSources ==
  {<<Undef, Undef, "ok">>, <<Str(<<>>), Undef, "ok">>,
   <<Undef, SomeBase64, "ok">>, <<Undef, SomeBase64, "sharpThrows">>,
   <<SomeUrl, Undef, "ok">>, <<SomeUrl, Undef, "fetchNotOk">>,
   <<SomeUrl, Undef, "fetchReject">>, <<SomeUrl, Undef, "sharpThrows">>,
   <<SomeUrl, SomeBase64, "ok">>, <<SomeUrl, SomeBase64, "fetchReject">>,
   <<Num(<<"5">>), Undef, "ok">>}

QualityVals ==
  {Undef, JsNull, Num(<<"0">>), Num(<<"-", "5">>), Num(<<"1", "5", "0">>),
   Num(<<"5", "0", ".", "7">>), Str(<<"a", "b", "c">>), Str(<<" ", "4", "2">>)}

FormatVals ==
  {Undef, Str(Png), Str(<<"P", "N", "G">>), Str(Webp), Str(<<"W", "e", "b", "P">>),
   Str(Jpeg), Str(<<"j", "p", "g">>), Str(<<"g", "i", "f">>), Num(<<"5">>)}

\* Widths and heights: absent or a positive integer, as a number or as text.
WidthVals == {Undef, Num(<<"3", "0", "0">>), Str(<<"1", "2", "0">>)}
HeightVals == {Undef, Num(<<"2", "0", "0">>)}

CompressInputs(Qs, Fs, Ws, Hs, Srcs) ==
  {Request("compress", s[1], s[2], q, w, h, f, NoBody, NoFile, NoStream, s[3]) :
     s \in Srcs, q \in Qs, f \in Fs, w \in Ws, h \in Hs}

\* The query parameters of the uploads considered (always text).
QueryQualityVals ==
  {Undef, Str(<<"0">>), Str(<<"-", "5">>), Str(<<"1", "5", "0">>), Str(<<"a", "b", "c">>)}
QueryFormatVals ==
  {Undef, Str(<<"P", "N", "G">>), Str(Webp), Str(<<"j", "p", "g">>), Str(<<"g", "i", "f">>)}
QueryWidthVals == {Undef, Str(<<"1", "2", "0">>)}
QueryHeightVals == {Undef, Str(<<"9", "0">>)}

Files == {NoFile, Buf(0), Buf(1), HasBuffer(1), HasData(0), PlainObject}

Bodies ==
  {NoBody, Buf(1)} \cup
  {BodyObject(Undef, Undef, f) : f \in Files} \cup
  {BodyObject(Num(<<"0">>), Undef, Buf(1)), BodyObject(Undef, Num(<<"5">>), Buf(1)),
   BodyObject(Undef, Num(<<"5">>), NoFile)}

Streams == {NoStream} \cup {Readable(n) : n \in 0..MaxChunks}

\* The outcomes that can differ for an upload: a stream error needs a
\* readable stream.
UploadWorlds(stream) ==
  IF stream.readable THEN {"ok", "sharpThrows", "streamError"} ELSE {"ok", "sharpThrows"}

\* Uploads whose parameters vary, over a one-chunk stream or a parsed body.
UploadParamInputs ==
  {Request("upload", Undef, Undef, q, w, h, f, b, NoFile, st, "ok") :
     q \in QueryQualityVals, f \in QueryFormatVals, w \in QueryWidthVals,
     h \in QueryHeightVals,
     b \in {NoBody, BodyObject(Num(<<"0">>), Undef, Buf(1)),
            BodyObject(Undef, Num(<<"5">>), Buf(1))},
     st \in {NoStream, Readable(1)}}

\* Uploads whose sources vary, with the parameters left out.
UploadSourceInputs ==
  UNION {{Request("upload", Undef, Undef, Undef, Undef, Undef, Undef, b, fl, st, wd) :
            wd \in UploadWorlds(st)} : b \in Bodies, fl \in Files, st \in Streams}

RootInput ==
  Request("root", Undef, Undef, Undef, Undef, Undef, Undef, NoBody, NoFile, NoStream, "ok")

\* Every request shape, for one request at a time (SpecFull).
FullInputs ==
  CompressInputs(QualityVals, FormatVals, WidthVals, HeightVals, CompressSources)
    \cup UploadParamInputs \cup UploadSourceInputs \cup {RootInput}

\* The request shapes that decide the status, with the parameters left out,
\* for requests in flight together (Spec).
CoarseInputs ==
  CompressInputs({Undef}, {Undef}, {Undef}, {Undef},
                 {<<Undef, Undef, "ok">>, <<Str(<<>>), Undef, "ok">>,
                  <<Undef, SomeBase64, "ok">>, <<SomeUrl, Undef, "ok">>, <<SomeUrl, Undef, "fetchReject">>,
                  <<SomeUrl, SomeBase64, "ok">>})
    \cup {Request("upload", Undef, Undef, Undef, Undef, Undef, Undef, NoBody, NoFile,
                  Readable(n), "ok") : n \in 0..MaxChunks}
    \cup {RootInput}

\* ---------------------------------------------------------------- actions

Idle == [pc |-> "idle", in |-> NoInput, res |-> NoRes, out |-> NoOut]

\* The deployments in which either nothing loads or everything does.
AllOrNothing(v) == {{}, {Strategies(v)[j] : j \in 1..Len(Strategies(v))}}

\* No compression has set its size headers.
NoSizes == originalSize = 0 /\ compressedSize = 0 /\ ratioHeader = <<>>

\* What curlProxy has set on ctx: nothing yet (status 0: not assigned).
NoCtx == [status |-> 0, type |-> Undef, body |-> Undef]

\* No call of curlProxy is in progress.
NoProxy ==
  /\ proxyPc = "idle"
  /\ parsed = Undef
  /\ request = Undef
  /\ axiosConfig = JsNull
  /\ outcome = [t |-> "none"]
  /\ ctx = NoCtx

NoThrow == [at |-> 0, status |-> 0, message |-> ""]

NoReply == [by |-> "none", status |-> 0, body |-> {}]

\* No request is in the middleware chain.
NoChain ==
  /\ stage = 0
  /\ inbound = NoInput
  /\ thrown = NoThrow
  /\ reply = NoReply

NoTrail ==
  [boot |-> 1, inherited |-> FALSE, found |-> "none", unlinked |-> "none",
   fetches |-> 0, wrote |-> FALSE]

NoAccess ==
  [pc |-> "idle", elapsed |-> 0, result |-> "none", netAtStart |-> "none",
   netAtEnd |-> "none"]

\* sharp.js has not been required by this process.
Unloaded ==
  /\ sharpNative = "null"
  /\ loadingPromise = "null"
  /\ loaderPc = "unloaded"
  /\ net = "none"
  /\ trail = NoTrail
  /\ facade = NoAccess

\* An entry of the disk: a file (statSync of it succeeds or throws) or a
\* directory (readdirSync of it succeeds, giving `items`, or throws).
Ent(name, dir, ok, items) == [name |-> name, dir |-> dir, ok |-> ok, items |-> items]

\* `null`, as returned by buildDirectoryTree.
NullTree == [name |-> <<>>, path |-> <<>>, type |-> "null", children |-> <<>>]

NoPage == [by |-> "none", scope |-> "none", maxDepth |-> 0, status |-> 0, tree |-> NullTree]

\* No directory has been walked.
NoTree == disk = Ent(<<>>, TRUE, TRUE, <<>>) /\ page = NoPage

\* The state after the module is loaded: nothing cached, no request.
InitWith(envs, slots) ==
  /\ variant \in Variants
  /\ isDev \in (IF variant = "sync" THEN BOOLEAN ELSE {TRUE})
  /\ env \in envs[variant]
  /\ sharp = "null"
  /\ sharpError = NoError
  /\ sharpLoaded = FALSE
  /\ attempts = <<>>
  /\ reqs = [i \in 1..slots |-> Idle]
  /\ failedWith = NoError
  /\ sent503 = FALSE
  /\ NoSizes
  /\ NoProxy
  /\ NoChain
  /\ Unloaded /\ tmpFile = "absent" /\ NoTree

\* Request i is answered with `out`, having got `res` from the loader.
Answer(i, in, res, out) ==
  /\ reqs' = [reqs EXCEPT ![i] = [pc |-> "done", in |-> in, res |-> res, out |-> out]]
  /\ sent503' = (sent503 \/ out.status = 503)

\* A loader call ended with every strategy failed: the first such error is
\* remembered (history).
NoteFailure(s, e) ==
  failedWith' = IF failedWith = NoError /\ s = "null" THEN e ELSE failedWith

\* A request arrives in slot i and its handler runs up to its first
\* suspension at the loader, or to its answer.  In the order of the code:
\*   the handler answers without the loader (400, a failed fetch, GET / ...);
\*   the loader returns what is cached (loadSharp: `if (sharpLoaded)`,
\*   getSharp: `if (sharp)`);
\*   the sync loadSharp runs its whole try/catch chain;
\*   the async loadSharp sets sharpLoaded and awaits the import, getSharp
\*   awaits the import.
Receive(i, in) ==
  /\ reqs[i].pc = "idle"
  /\ IF Handle(variant, in, NoRes).kind # "loader"
       THEN /\ Answer(i, in, NoRes, Handle(variant, in, NoRes))
            /\ UNCHANGED <<sharp, sharpError, sharpLoaded, attempts, failedWith>>
     ELSE IF Cached(variant)
       THEN /\ Answer(i, in, Res(sharp, sharpError, FALSE),
                      Handle(variant, in, Res(sharp, sharpError, FALSE)))
            /\ UNCHANGED <<sharp, sharpError, sharpLoaded, attempts, failedWith>>
     ELSE IF variant = "sync"
       THEN LET chain == LoadChain(Strategies(variant), 1, env)
                res == Res(chain.sharp, chain.sharpError, FALSE)
            IN /\ sharpLoaded' = TRUE
               /\ sharp' = chain.sharp
               /\ sharpError' = chain.sharpError
               /\ attempts' = attempts \o chain.tried
               /\ NoteFailure(chain.sharp, chain.sharpError)
               /\ Answer(i, in, res, Handle(variant, in, res))
     ELSE /\ variant = "get" => Len(attempts) < MaxAttempts
          /\ sharpLoaded' = (IF variant = "async" THEN TRUE ELSE sharpLoaded)
          /\ attempts' = Append(attempts, "import")
          /\ reqs' = [reqs EXCEPT ![i] =
                        [pc |-> "awaitImport", in |-> in, res |-> NoRes, out |-> NoOut]]
          /\ UNCHANGED <<sharp, sharpError, failedWith, sent503>>
  /\ UNCHANGED <<variant, isDev, env>>
  /\ UNCHANGED otherVars

\* The awaited import of request i settles.  async loadSharp: on success
\* `sharp` is set, on failure the require chain runs (relative paths,
\* absolute paths, npm) and `sharp` or `sharpError` is set; the call returns
\* { sharp, sharpError }.  getSharp: on success `sharp` is set and returned,
\* on failure the rejection propagates to the handler's catch and nothing is
\* stored.
ImportSettles(i) ==
  /\ reqs[i].pc = "awaitImport"
  /\ LET in == reqs[i].in
         chain == IF "import" \in env
                    THEN [tried |-> <<>>, sharp |-> "import", sharpError |-> NoError]
                  ELSE IF variant = "get"
                    THEN [tried |-> <<>>, sharp |-> "null",
                          sharpError |-> ErrorOf("import")]
                  ELSE LoadChain(Strategies(variant), 2, env)
         res == IF variant = "get"
                  THEN Res(chain.sharp, chain.sharpError, chain.sharp = "null")
                ELSE Res(chain.sharp, chain.sharpError, FALSE)
     IN /\ sharp' = (IF variant = "get" /\ chain.sharp = "null" THEN sharp ELSE chain.sharp)
        /\ sharpError' = (IF variant = "get" THEN sharpError ELSE chain.sharpError)
        /\ attempts' = attempts \o chain.tried
        /\ NoteFailure(chain.sharp, chain.sharpError)
        /\ Answer(i, in, res, Handle(variant, in, res))
  /\ UNCHANGED <<variant, isDev, env, sharpLoaded>>
  /\ UNCHANGED otherVars

\* The answer of request i has been sent; its slot takes the next request.
Retire(i) ==
  /\ reqs[i].pc = "done"
  /\ reqs' = [reqs EXCEPT ![i] = Idle]
  /\ UNCHANGED <<variant, isDev, env, sharp, sharpError, sharpLoaded, attempts,
                 failedWith, sent503>>
  /\ UNCHANGED otherVars

\* Requests in flight together, over the request shapes that decide the status.
Arrive(i) == \E in \in CoarseInputs : Receive(i, in)

Init == InitWith([v \in Variants |-> Envs(v)], MaxReq)

Next == \E i \in 1..MaxReq : Arrive(i) \/ ImportSettles(i) \/ Retire(i)

Spec == Init /\ [][Next]_vars

\* One request at a time, over every request shape; the deployment either
\* loads nothing or loads everything.
ArriveFull == \E in \in FullInputs : Receive(1, in)

InitFull == InitWith([v \in Variants |-> AllOrNothing(v)], 1)

NextFull == ArriveFull \/ ImportSettles(1) \/ Retire(1)

SpecFull == InitFull /\ [][NextFull]_vars

\* ------------------------------------------------- compression ratio

\* The entry file at rest: nothing cached, one idle request slot.
EntryAtRest ==
  /\ variant = "async"
  /\ isDev = TRUE
  /\ env = {}
  /\ sharp = "null"
  /\ sharpError = NoError
  /\ sharpLoaded = FALSE
  /\ attempts = <<>>
  /\ reqs = [i \in 1..1 |-> Idle]
  /\ failedWith = NoError
  /\ sent503 = FALSE

DigitChar == <<"0", "1", "2", "3", "4", "5", "6", "7", "8", "9">>

\* n.toString() of a non-negative integer.
RECURSIVE NatText(_)
NatText(n) ==
  IF n < 10 THEN <<DigitChar[n + 1]>>
  ELSE NatText(n \div 10) \o <<DigitChar[(n % 10) + 1]>>

\* A faulty variant of ToFixed: the digits past the second are cut off.
ToFixedCut(num, den) ==
  LET a == IF num < 0 THEN 0 - num ELSE num
      n == (100 * a) \div den
  IN (IF num < 0 THEN <<"-">> ELSE <<>>) \o NatText(n \div 100) \o <<".">>
       \o <<DigitChar[((n \div 10) % 10) + 1], DigitChar[(n % 10) + 1]>>

\* x.toFixed(2) of the number x = num / den (den > 0): a "-" when x < 0, then
\* the integer n for which n / 100 is nearest to |x|, the larger n of two
\* equally near, written with two fraction digits.  The division and the
\* product in the handler are double operations; for the sizes of the model
\* each yields the double nearest the exact value, and a value half-way
\* between two hundredths (originalSize a multiple of 32) is computed exactly.
ToFixed(num, den) ==
  LET a == IF num < 0 THEN 0 - num ELSE num
      n == (200 * a + den) \div (2 * den)
  IN (IF num < 0 THEN <<"-">> ELSE <<>>) \o NatText(n \div 100) \o <<".">>
       \o <<DigitChar[((n \div 10) % 10) + 1], DigitChar[(n % 10) + 1]>>

\* `((1 - compressedSize / originalSize) * 100).toFixed(2)`
CompressionRatio(o, c) == ToFixed(100 * (o - c), o)

\* `${compressionRatio}%`
RatioHeader(o, c) == CompressionRatio(o, c) \o <<"%">>

\* A compression succeeded on an original of o bytes with an output of c
\* bytes (the capability's, opaque): the handler sets its size headers.
SetSizeHeaders(o, c) ==
  /\ originalSize' = o
  /\ compressedSize' = c
  /\ ratioHeader' = RatioHeader(o, c)
  /\ UNCHANGED <<entryVars, curlVars, chainVars, remoteVars, treeVars>>

InitSizes ==
  EntryAtRest /\ NoSizes /\ NoProxy /\ NoChain /\ Unloaded /\ tmpFile = "absent" /\ NoTree

NextSizes == \E o \in 1..MaxSize, c \in 1..MaxOut : SetSizeHeaders(o, c)

SpecSizes == InitSizes /\ [][NextSizes]_vars

\* ------------------------------------------------------------ curl proxy

\* An object whose own properties are the mapping m (names to values).
Obj(m) == [t |-> "object", m |-> m]

EmptyMap == [k \in {} |-> Undef]

\* s.split(':'): the pieces between the colons, all of them.
RECURSIVE Split(_)
Split(s) ==
  IF \A k \in 1..Len(s) : s[k] # ":" THEN <<s>>
  ELSE LET k == CHOOSE j \in 1..Len(s) :
                  s[j] = ":" /\ \A l \in 1..(j - 1) : s[l] # ":"
       IN <<SubSeq(s, 1, k - 1)>> \o Split(SubSeq(s, k + 1, Len(s)))

\* `const [username, password] = String(request.auth).split(':')`, then
\* `{ username: username || '', password: password || '' }`: the first two
\* pieces, a missing one undefined.
AuthOf(auth) ==
  LET parts == Split(JsString(auth))
  IN [username |-> parts[1],
      password |-> IF Len(parts) >= 2 THEN parts[2] ELSE <<>>]

\* A faulty variant of ConfigHeaders: config.headers is request.headers itself.
ConfigHeadersShared(headers) ==
  [own |-> ~Truthy(headers), m |-> IF Truthy(headers) THEN headers.m ELSE EmptyMap]

\* `request.headers ? { ...request.headers } : {}`: a new object (own) that
\* holds the properties of request.headers.
ConfigHeaders(headers) ==
  [own |-> TRUE, m |-> IF Truthy(headers) THEN headers.m ELSE EmptyMap]

\* requestToAxiosConfig(request): the configuration returned, and `request`
\* as the call leaves it.  The only write to an object that existed before
\* the call would be `config.headers.Cookie = ...`, were config.headers not
\* its own object.  A property the function does not set is not in the
\* domain of `config`.
RequestToAxiosConfig(req) ==
  LET h == ConfigHeaders(req.headers)
      cookie == IF Truthy(req.cookieString)
                  THEN "Cookie" :> req.cookieString ELSE EmptyMap
      data == IF req.data # Undef THEN "data" :> req.data ELSE EmptyMap
      params == IF Truthy(req.query) /\ DOMAIN req.query.m # {}
                  THEN "params" :> req.query ELSE EmptyMap
      auth == IF Truthy(req.auth) THEN "auth" :> AuthOf(req.auth) ELSE EmptyMap
  IN [config |->
        [url |-> req.url,
         method |-> Or2(req.method, Str(<<"g", "e", "t">>)),
         headers |-> Obj(cookie @@ h.m),
         validateStatus |-> JsNull] @@ data @@ params @@ auth,
      request |->
        IF h.own THEN req ELSE [req EXCEPT !.headers = Obj(cookie @@ h.m)]]

\* A descriptor, as parseCurlCommand returns it.
Descriptor(method, headers, cookieString, data, query, auth) ==
  [url |-> Str(<<"u">>), method |-> method, headers |-> headers,
   cookieString |-> cookieString, data |-> data, query |-> query, auth |-> auth]

Post == Str(<<"P", "O", "S", "T">>)

\* The header mapping of `-H "X-Test: 1"`.
XTest == Obj("X-Test" :> Str(<<"1">>))

\* The texts of at most MaxAuth characters over a letter and the colon, and
\* the credentials 'user:pass' and 'user'.
AuthTexts ==
  UNION {[1..n -> {"a", ":"}] : n \in 0..MaxAuth}
    \cup {<<"u", "s", "e", "r", ":", "p", "a", "s", "s">>, <<"u", "s", "e", "r">>}

\* The descriptors considered: every combination of method, headers, cookie
\* string, body and query with two credentials, and every credential text
\* with the rest of the descriptor fixed.
Descriptors ==
  {Descriptor(m, h, c, d, q, a) :
     m \in {Undef, Post, Str(<<>>)},
     h \in {Undef, Obj(EmptyMap), XTest, Obj("Cookie" :> Str(<<"o">>))},
     c \in {Undef, Str(<<>>), Str(<<"c">>)},
     d \in {Undef, JsNull, Str(<<>>), Str(<<"{", "a", ":", "1", "}">>)},
     q \in {Undef, Obj(EmptyMap), Obj("k" :> Str(<<"v">>))},
     a \in {Undef, Str(<<"a", ":", "a">>)}}
  \cup {Descriptor(Post, XTest, Undef, Undef, Undef, Str(t)) : t \in AuthTexts}

\* `a ?? b`
Nullish(a, b) == IF a \in {Undef, JsNull} THEN b ELSE a

\* A faulty variant of Envelope: the configuration is never reported.
EnvelopeBare(message, config) ==
  [status |-> 500, type |-> Str(<<"application/json">>),
   body |-> [code |-> 500, message |-> message]]

\* The catch of curlProxy: status 500, type application/json, and the body
\* { code, message, axiosConfig: { url, method } }, the last only when
\* `axiosConfig` is not null.
Envelope(message, config) ==
  [status |-> 500, type |-> Str(<<"application/json">>),
   body |-> [code |-> 500, message |-> message] @@
            (IF config # JsNull
               THEN "axiosConfig" :> [url |-> config.url, method |-> config.method]
               ELSE EmptyMap)]

\* What parseCurlCommand can do with a text: throw, return something that is
\* not an object, or return a descriptor.
ParseOutcomes == {[t |-> "throws"], Undef} \cup Descriptors

\* What axios(axiosConfig) can do: reject (no response), or resolve with the
\* upstream's response whatever its status (validateStatus: null).
AxiosOutcomes ==
  {[t |-> "rejects"]} \cup
  {[t |-> "response", status |-> st, contentType |-> ct, data |-> Str(<<"d">>)] :
     st \in {200, 404, 500}, ct \in {Undef, Str(<<"t">>)}}

\* The call ends in the catch, before any configuration exists.
FailsEarly(what) ==
  /\ proxyPc' = "done"
  /\ outcome' = [t |-> what]
  /\ ctx' = Envelope(what, JsNull)
  /\ UNCHANGED <<parsed, request, axiosConfig>>

\* curlProxy(ctx) up to its await of axios, for body.curl, query.curl and
\* what the parser does: `curl.trim()` throws unless curl is a string, the
\* parser may throw, the conversion throws on a descriptor that is not an
\* object; else axiosConfig is set and the request is sent.
CurlProxy(bodyCurl, queryCurl, parse) ==
  /\ proxyPc = "idle"
  /\ LET curl == Nullish(bodyCurl, queryCurl)
     IN IF curl.t # "string" THEN FailsEarly("noCurl")
        ELSE IF parse = [t |-> "throws"] THEN FailsEarly("parseThrows")
        ELSE IF parse = Undef THEN FailsEarly("notObject")
        ELSE /\ proxyPc' = "awaitAxios"
             /\ parsed' = parse
             /\ request' = RequestToAxiosConfig(parse).request
             /\ axiosConfig' = RequestToAxiosConfig(parse).config
             /\ UNCHANGED <<outcome, ctx>>
  /\ UNCHANGED <<entryVars, sizeVars, chainVars, remoteVars, treeVars>>

\* A faulty variant of Settled: a response of status 400 or more is a failure.
SettledStrict(res, config) ==
  IF res.t = "rejects" THEN Envelope("rejects", config)
  ELSE IF res.status >= 400 THEN Envelope("status", config)
  ELSE [status |-> 0,
        type |-> IF Truthy(res.contentType) THEN res.contentType ELSE Undef,
        body |-> res.data]

\* What the handler sets on ctx once axios has settled: the catch's envelope
\* on a rejection; else `if (contentType) ctx.set('Content-Type', contentType)`
\* and `ctx.body = res.data`, with no status assigned.
Settled(res, config) ==
  IF res.t = "rejects" THEN Envelope("rejects", config)
  ELSE [status |-> 0,
        type |-> IF Truthy(res.contentType) THEN res.contentType ELSE Undef,
        body |-> res.data]

\* The awaited axios call settles: a rejection goes to the catch; a response
\* has its content-type set on ctx when it has one, and its data as the body.
\* The handler assigns no status.
AxiosSettles(res) ==
  /\ proxyPc = "awaitAxios"
  /\ proxyPc' = "done"
  /\ outcome' = res
  /\ ctx' = Settled(res, axiosConfig)
  /\ UNCHANGED <<parsed, request, axiosConfig, entryVars, sizeVars, chainVars, remoteVars, treeVars>>

\* The response has been sent; the next call starts afresh.
ProxyReturns ==
  /\ proxyPc = "done"
  /\ proxyPc' = "idle"
  /\ parsed' = Undef
  /\ request' = Undef
  /\ axiosConfig' = JsNull
  /\ outcome' = [t |-> "none"]
  /\ ctx' = NoCtx
  /\ UNCHANGED <<entryVars, sizeVars, chainVars, remoteVars, treeVars>>

InitCurl ==
  EntryAtRest /\ NoSizes /\ NoProxy /\ NoChain /\ Unloaded /\ tmpFile = "absent" /\ NoTree

NextCurl ==
  \/ \E b \in {Undef, JsNull, Num(<<"5">>), Str(<<"c">>)}, q \in {Undef, Str(<<"c">>)},
        parse \in ParseOutcomes : CurlProxy(b, q, parse)
  \/ \E res \in AxiosOutcomes : AxiosSettles(res)
  \/ ProxyReturns

SpecCurl == InitCurl /\ [][NextCurl]_vars

\* ------------------------------------------------------- middleware chain

\* The middleware in the order of the app.use calls: each runs inside the
\* `await next()` of the one before it.
Chain == <<"logging", "bodyParser", "errorHandler", "router">>

\* The requests considered: the route, whether the JSON body is well formed,
\* and what the route handler lets escape (0: nothing; else an exception,
\* 1 for one that carries no status, or its status).
ChainInputs ==
  {[route |-> r, body |-> b, escapes |-> e] :
     r \in {"root", "compress", "upload", "other"},
     b \in {"json", "malformed"},
     e \in {0, 1, 400, 404, 503}}

\* The request enters the logging middleware, which calls next.
Inbound(in) ==
  /\ stage = 0
  /\ stage' = 2
  /\ inbound' = in
  /\ UNCHANGED <<thrown, reply, entryVars, sizeVars, curlVars, remoteVars, treeVars>>

\* The body-parser middleware: POST /compress/upload goes on unparsed; any
\* other request is parsed by koa-bodyparser, which throws (status 400) on
\* a malformed JSON body and else goes on.
BodyParser ==
  /\ stage = 2
  /\ IF inbound.route # "upload" /\ inbound.body = "malformed"
       THEN /\ stage' = -1
            /\ thrown' = [at |-> 2, status |-> 400, message |-> "parse"]
       ELSE /\ stage' = 3
            /\ UNCHANGED thrown
  /\ UNCHANGED <<inbound, reply, entryVars, sizeVars, curlVars, remoteVars, treeVars>>

\* The error-handling middleware enters its try and calls next.
ErrorHandler ==
  /\ stage = 3
  /\ stage' = 4
  /\ UNCHANGED <<inbound, thrown, reply, entryVars, sizeVars, curlVars, remoteVars, treeVars>>

\* The router runs the route's handler: it answers, or lets an exception
\* escape.
Router ==
  /\ stage = 4
  /\ IF inbound.escapes = 0
       THEN /\ stage' = 5
            /\ reply' = [by |-> "router", status |-> 200, body |-> {}]
            /\ UNCHANGED thrown
       ELSE /\ stage' = -1
            /\ thrown' = [at |-> 4, message |-> "handler",
                          status |-> IF inbound.escapes = 1 THEN 0 ELSE inbound.escapes]
            /\ UNCHANGED reply
  /\ UNCHANGED <<inbound, entryVars, sizeVars, curlVars, remoteVars, treeVars>>

\* The exception passes up through the `await next()` of the middleware
\* registered before the one that raised it.  If the error handler is among
\* them its catch answers: `err.status || 500`, a body with error and status
\* (and more, unless the sync build runs with isDev false).  Otherwise the
\* exception leaves the application's middleware and the framework answers.
Unwind ==
  /\ stage = -1
  /\ stage' = 5
  /\ reply' =
       IF \E j \in 1..(thrown.at - 1) : Chain[j] = "errorHandler"
         THEN [by |-> "errorHandler",
               status |-> IF thrown.status # 0 THEN thrown.status ELSE 500,
               body |-> {"error", "status"}]
         ELSE [by |-> "framework", status |-> thrown.status, body |-> {}]
  /\ UNCHANGED <<inbound, thrown, entryVars, sizeVars, curlVars, remoteVars, treeVars>>

\* The response has been sent.
Sent ==
  /\ stage = 5
  /\ stage' = 0
  /\ inbound' = NoInput
  /\ thrown' = NoThrow
  /\ reply' = NoReply
  /\ UNCHANGED <<entryVars, sizeVars, curlVars, remoteVars, treeVars>>

InitChain ==
  EntryAtRest /\ NoSizes /\ NoProxy /\ NoChain /\ Unloaded /\ tmpFile = "absent" /\ NoTree

NextChain ==
  \/ \E in \in ChainInputs : Inbound(in)
  \/ BodyParser
  \/ ErrorHandler
  \/ Router
  \/ Unwind
  \/ Sent

SpecChain == InitChain /\ [][NextChain]_vars

\* ---------------------------------------------------------- remote loader

\* The frame of the remote loader's actions.
RemoteFrame == UNCHANGED <<entryVars, sizeVars, curlVars, chainVars, treeVars>>

\* No JavaScript is running: a continuation or a promise callback can run.
\* While waitForSharpSync spins, none can.
EventLoopFree == facade.pc # "waiting"

\* A faulty variant of CacheHit: the cached file is never used.
CacheMiss(file) == FALSE

\* `fs.existsSync(tmpPath)` and the dynamic require of it succeed.
CacheHit(file) == file = "good"

\* The process requires sharp.js: its top level calls loadSharpFromRemote,
\* which runs up to its return or its first await, and stores the promise
\* chained on it in loadingPromise.  A file that is there and loads is
\* returned; one that is there and does not load is unlinked (an error of
\* the unlink is ignored); without a loaded file the download is started.
Evaluate ==
  /\ loaderPc = "unloaded"
  /\ loadingPromise' = "pending"
  /\ IF CacheHit(tmpFile)
       THEN /\ loaderPc' = "fulfilled"
            /\ trail' = [trail EXCEPT !.found = tmpFile]
            /\ UNCHANGED <<net, tmpFile>>
       ELSE /\ loaderPc' = "awaitFetch"
            /\ net' = "inflight"
            /\ IF tmpFile = "absent"
                 THEN /\ trail' = [trail EXCEPT !.found = tmpFile, !.fetches = @ + 1]
                      /\ UNCHANGED tmpFile
                 ELSE \E unlinks \in BOOLEAN :
                        /\ tmpFile' = IF unlinks THEN "absent" ELSE tmpFile
                        /\ trail' = [trail EXCEPT
                                       !.found = tmpFile, !.fetches = @ + 1,
                                       !.unlinked = IF unlinks THEN "ok" ELSE "failed"]
  /\ UNCHANGED <<sharpNative, facade>>
  /\ RemoteFrame

\* The network answers the download: a response that is ok, one that is
\* not, or an error.  This needs no JavaScript to run.
ResponseArrives(how) ==
  /\ net = "inflight"
  /\ net' = how
  /\ UNCHANGED <<sharpNative, loadingPromise, loaderPc, tmpFile, trail, facade>>
  /\ RemoteFrame

\* loadSharpFromRemote goes on after its awaits (fetch, arrayBuffer): a
\* response that is not ok, or an error, throws; else the bytes are written
\* to tmpPath (the write may throw) and required (bytes that do not load
\* throw).  What is thrown rejects the promise.
FetchContinues(bytes) ==
  /\ loaderPc = "awaitFetch" /\ net # "inflight" /\ EventLoopFree
  /\ IF net # "ok" \/ bytes = "writeFails"
       THEN /\ loaderPc' = "rejected"
            /\ UNCHANGED <<tmpFile, trail>>
       ELSE /\ tmpFile' = bytes
            /\ trail' = [trail EXCEPT !.wrote = TRUE]
            /\ loaderPc' = IF bytes = "good" THEN "fulfilled" ELSE "rejected"
  /\ UNCHANGED <<sharpNative, loadingPromise, net, facade>>
  /\ RemoteFrame

\* A faulty variant of PromiseSettles: `.catch` leaves loadingPromise set.
PromiseSettlesKeeps ==
  /\ loaderPc \in {"fulfilled", "rejected"} /\ EventLoopFree
  /\ sharpNative' = IF loaderPc = "fulfilled" THEN "module" ELSE sharpNative
  /\ loadingPromise' = IF loaderPc = "fulfilled" THEN "null" ELSE loadingPromise
  /\ loaderPc' = IF loaderPc = "fulfilled" THEN "loaded" ELSE "failed"
  /\ UNCHANGED <<net, tmpFile, trail, facade>>
  /\ RemoteFrame

\* The callback chained on the promise runs: `.then` stores the module and
\* clears loadingPromise, `.catch` clears loadingPromise.
PromiseSettles ==
  /\ loaderPc \in {"fulfilled", "rejected"} /\ EventLoopFree
  /\ sharpNative' = IF loaderPc = "fulfilled" THEN "module" ELSE sharpNative
  /\ loadingPromise' = "null"
  /\ loaderPc' = IF loaderPc = "fulfilled" THEN "loaded" ELSE "failed"
  /\ UNCHANGED <<net, tmpFile, trail, facade>>
  /\ RemoteFrame

\* A property of the exported Proxy is read (the `get` trap): the module's
\* property if sharpNative is set; else, if loadingPromise is set, the trap
\* enters waitForSharpSync; else it throws the 'load failed' error.
Access ==
  /\ loaderPc # "unloaded" /\ EventLoopFree
  /\ facade' =
       IF sharpNative # "null"
         THEN [NoAccess EXCEPT !.pc = "returned", !.result = "value",
                               !.netAtStart = net, !.netAtEnd = net]
       ELSE IF loadingPromise # "null"
         THEN [NoAccess EXCEPT !.pc = "waiting", !.netAtStart = net]
       ELSE [NoAccess EXCEPT !.pc = "threw", !.result = "loadFailed",
                             !.netAtStart = net, !.netAtEnd = net]
  /\ UNCHANGED <<sharpNative, loadingPromise, loaderPc, net, tmpFile, trail>>
  /\ RemoteFrame

\* A faulty variant of WaitGoesOn: the wait has no cap.
WaitGoesOnUncapped ==
  sharpNative = "null" /\ loadingPromise # "null"

\* `while (!sharpNative && loadingPromise && Date.now() - startTime < maxWaitMs)`
WaitGoesOn ==
  sharpNative = "null" /\ loadingPromise # "null" /\ facade.elapsed < MaxWait

\* One polling interval of waitForSharpSync passes in its inner busy loop
\* (`end = Date.now() + checkInterval; while (Date.now() < end)`), which finds
\* sharpNative unset.
WaitTick ==
  /\ facade.pc = "waiting" /\ WaitGoesOn
  /\ facade' = [facade EXCEPT !.elapsed = @ + CheckInterval]
  /\ UNCHANGED <<sharpNative, loadingPromise, loaderPc, net, tmpFile, trail>>
  /\ RemoteFrame

\* waitForSharpSync returns sharpNative; the trap returns the module's
\* property if that is set, and else throws the 'still loading' error.
WaitEnds ==
  /\ facade.pc = "waiting" /\ ~WaitGoesOn
  /\ facade' =
       IF sharpNative # "null"
         THEN [facade EXCEPT !.pc = "returned", !.result = "value", !.netAtEnd = net]
         ELSE [facade EXCEPT !.pc = "threw", !.result = "stillLoading", !.netAtEnd = net]
  /\ UNCHANGED <<sharpNative, loadingPromise, loaderPc, net, tmpFile, trail>>
  /\ RemoteFrame

\* The process ends and another starts: the module state is new, the
\* temporary directory is as it was left.
Restart ==
  /\ loaderPc # "unloaded" /\ EventLoopFree /\ trail.boot < MaxBoots
  /\ sharpNative' = "null"
  /\ loadingPromise' = "null"
  /\ loaderPc' = "unloaded"
  /\ net' = "none"
  /\ trail' = [NoTrail EXCEPT !.boot = trail.boot + 1, !.inherited = trail.wrote]
  /\ facade' = NoAccess
  /\ UNCHANGED tmpFile
  /\ RemoteFrame

InitRemote ==
  /\ EntryAtRest /\ NoSizes /\ NoProxy /\ NoChain /\ Unloaded /\ NoTree
  /\ tmpFile \in {"absent", "good", "corrupt"}

NextRemote ==
  \/ Evaluate
  \/ \E how \in {"ok", "notOk", "error"} : ResponseArrives(how)
  \/ \E bytes \in {"good", "corrupt", "writeFails"} : FetchContinues(bytes)
  \/ PromiseSettles
  \/ Access
  \/ WaitTick
  \/ WaitEnds
  \/ Restart

SpecRemote == InitRemote /\ [][NextRemote]_vars

\* ----------------------------------------------------------- directory tree

\* The depths to which buildDirectoryTree is called directly.
MaxDepth == 3

\* `buildDirectoryTree(rootPath, '/', 40)` in GET /.
RootDepth == 40

File(name, ok) == Ent(name, FALSE, ok, <<>>)

\* A directory whose readdirSync throws: what it holds is not seen.
Unreadable(name) == Ent(name, TRUE, FALSE, <<>>)

Dir(name, items) == Ent(name, TRUE, TRUE, items)

\* What a directory two levels down can hold: nothing, or one file.
LeafListings == {<<>>} \cup {<<File(<<"a">>, ok)>> : ok \in BOOLEAN}

\* What a directory one level down can hold, in the order readdirSync gives
\* it: a file b, a directory a.
SubListings ==
  {b \o a :
     b \in {<<>>} \cup {<<File(<<"b">>, ok)>> : ok \in BOOLEAN},
     a \in {<<>>, <<Unreadable(<<"a">>)>>} \cup {<<Dir(<<"a">>, l)>> : l \in LeafListings}}

\* The working directories considered: one that cannot be read, and those
\* that hold, in this order, some of: a file c, a directory d, a file a, a
\* directory b, and a hidden directory .g with a file in it.
Disks ==
  {Unreadable(<<"r">>)} \cup
  {Dir(<<"r">>, c \o d \o a \o b \o g) :
     c \in {<<>>} \cup {<<File(<<"c">>, ok)>> : ok \in BOOLEAN},
     d \in {<<>>, <<Unreadable(<<"d">>)>>} \cup {<<Dir(<<"d">>, l)>> : l \in LeafListings},
     a \in {<<>>, <<File(<<"a">>, TRUE)>>},
     b \in {<<>>, <<Unreadable(<<"b">>)>>} \cup {<<Dir(<<"b">>, l)>> : l \in SubListings},
     g \in {<<>>, <<Dir(<<".", "g">>, <<File(<<"a">>, TRUE)>>)>>}}

\* `item.name.startsWith('.') && item.name !== '.'`
Skipped(name) == Len(name) > 0 /\ name[1] = "." /\ name # <<".">>

\* A faulty variant of StatSync: the stat of a file never throws.
StatNeverThrows(item) == TRUE

\* `fs.statSync(fullPath)` returns.
StatSync(item) == item.ok

\* `fs.readdirSync(dirPath, { withFileTypes: true })` returns.
ReaddirSync(dir) == dir.ok

\* The node pushed for a file (its size and modification time are left out).
FileNode(name, relativePath) ==
  [name |-> name, path |-> relativePath, type |-> "file", children |-> <<>>]

\* The rank of a character in the collation of localeCompare.
CharRank(c) ==
  CHOOSE k \in 1..6 : <<".", "a", "b", "c", "d", "r">>[k] = c

\* `a.localeCompare(b) < 0`, compared from position k on.
RECURSIVE LocaleBefore(_, _, _)
LocaleBefore(a, b, k) ==
  IF k > Len(b) THEN FALSE
  ELSE IF k > Len(a) THEN TRUE
  ELSE IF a[k] # b[k] THEN CharRank(a[k]) < CharRank(b[k])
  ELSE LocaleBefore(a, b, k + 1)

\* The comparator of the sort is negative: directories first, then by name.
Before(a, b) ==
  IF a.type # b.type THEN a.type = "directory" ELSE LocaleBefore(a.name, b.name, 1)

\* `tree.children.sort(...)`: the sort is stable.
RECURSIVE SortChildren(_)
SortChildren(children) ==
  IF children = <<>> THEN <<>>
  ELSE LET x == Head(children)
           sorted == SortChildren(Tail(children))
           ahead == {k \in 1..Len(sorted) : Before(sorted[k], x)}
           n == IF ahead = {} THEN 0 ELSE CHOOSE k \in ahead : \A j \in ahead : j <= k
       IN SubSeq(sorted, 1, n) \o <<x>> \o SubSeq(sorted, n + 1, Len(sorted))

RECURSIVE BuildDirectoryTree(_, _, _, _)
RECURSIVE Walk(_, _, _, _, _)

\* The loop over the items of a directory, from item k on: a hidden item is
\* passed over; a directory is walked and pushed unless the walk gave null; a
\* file is pushed if its stat returns, and else the inner catch warns.
Walk(items, k, basePath, maxDepth, currentDepth) ==
  IF k > Len(items) THEN <<>>
  ELSE LET item == items[k]
           relativePath == Append(basePath, item.name)
           rest == Walk(items, k + 1, basePath, maxDepth, currentDepth)
           childTree == BuildDirectoryTree(item, relativePath, maxDepth, currentDepth + 1)
       IN IF Skipped(item.name) THEN rest
          ELSE IF item.dir
            THEN IF childTree # NullTree THEN <<childTree>> \o rest ELSE rest
          ELSE IF StatSync(item) THEN <<FileNode(item.name, relativePath)>> \o rest
          ELSE rest

\* buildDirectoryTree(dirPath, basePath, maxDepth, currentDepth): null at the
\* depth limit and when the directory cannot be read (the outer catch), else
\* the directory's node with its children sorted.
BuildDirectoryTree(dir, basePath, maxDepth, currentDepth) ==
  IF currentDepth >= maxDepth THEN NullTree
  ELSE IF ~ReaddirSync(dir) THEN NullTree
  ELSE [name |-> dir.name, path |-> basePath, type |-> "directory",
        children |-> SortChildren(Walk(dir.items, 1, basePath, maxDepth, currentDepth))]

\* GET / in the builds that show the tree: the tree of the working directory
\* is built, then `__dirname` is read inside the handler's try.  Where the
\* file runs as a CommonJS bundle the name is bound and the answer is 200 with
\* the tree; where it runs as an ES module the read throws a ReferenceError
\* and the handler's catch answers 500.
GetTree(scope) ==
  /\ page' = IF scope = "commonjs"
               THEN [by |-> "get", scope |-> scope, maxDepth |-> RootDepth, status |-> 200,
                     tree |-> BuildDirectoryTree(disk, <<>>, RootDepth, 0)]
             ELSE [by |-> "get", scope |-> scope, maxDepth |-> RootDepth, status |-> 500,
                   tree |-> NullTree]
  /\ UNCHANGED disk
  /\ UNCHANGED <<entryVars, sizeVars, curlVars, chainVars, remoteVars>>

\* buildDirectoryTree is called with a depth limit of its caller's choice.
Build(maxDepth) ==
  /\ page' = [by |-> "call", scope |-> "none", maxDepth |-> maxDepth, status |-> 0,
              tree |-> BuildDirectoryTree(disk, <<>>, maxDepth, 0)]
  /\ UNCHANGED disk
  /\ UNCHANGED <<entryVars, sizeVars, curlVars, chainVars, remoteVars>>

InitTree ==
  /\ EntryAtRest /\ NoSizes /\ NoProxy /\ NoChain /\ Unloaded /\ tmpFile = "absent"
  /\ disk \in Disks
  /\ page = NoPage

NextTree ==
  \/ \E scope \in {"commonjs", "module"} : GetTree(scope)
  \/ \E maxDepth \in 1..MaxDepth : Build(maxDepth)

SpecTree == InitTree /\ [][NextTree]_vars

\* ----------------------------------------------------------------- claims

Slots == DOMAIN reqs

Done(i) == reqs[i].pc = "done"

\* Request i has just been answered by this step.
Answered(i) == reqs[i].pc # "done" /\ reqs'[i].pc = "done"

\* C1: once a loader call has ended with every load strategy failed, no later
\* step makes a load attempt, and every loader call answered afterwards
\* returns that same failure.
C1_FailureIsCached ==
  [][failedWith # NoError =>
       /\ attempts' = attempts
       /\ \A i \in Slots :
            Answered(i) /\ reqs'[i].res.called =>
              /\ reqs'[i].res.sharp = "null"
              /\ reqs'[i].res.sharpError = failedWith]_vars

\* C2: no loader call returns a null handle together with a null error, and
\* no request has been answered 503 when the capability is loaded.
C2_HandleOrReason ==
  /\ \A i \in Slots :
       Done(i) /\ reqs[i].res.called =>
         ~(reqs[i].res.sharp = "null" /\ reqs[i].res.sharpError = NoError)
  /\ sent503 => sharp = "null"

\* A request that needs the capability: POST /compress with a source, or
\* POST /compress/upload.
NeedsCapability(in) ==
  \/ in.route = "upload"
  \/ in.route = "compress" /\ (Truthy(in.url) \/ Truthy(in.base64))

\* C3: a request that needs the capability and whose loader call found every
\* load strategy failed is answered 503, and no exception leaves its handler.
C3_UnavailableIs503 ==
  \A i \in Slots :
    Done(i) /\ NeedsCapability(reqs[i].in) /\ reqs[i].res.called
      /\ reqs[i].res.sharp = "null" /\ env = {} =>
        reqs[i].out.status = 503 /\ ~reqs[i].out.escaped

\* C4: a POST /compress request with neither url nor base64 is answered 400,
\* having made no loader call, no fetch and no call of the capability --
\* in every state of the loader.
C4_MissingSourceIs400 ==
  \A i \in Slots :
    Done(i) /\ reqs[i].in.route = "compress"
      /\ ~Truthy(reqs[i].in.url) /\ ~Truthy(reqs[i].in.base64) =>
        /\ reqs[i].out.status = 400
        /\ ~reqs[i].res.called
        /\ reqs[i].out.fetches = 0
        /\ reqs[i].out.sharpCalls = 0

\* C4 witness: such a request, with an empty-string url, is answered 400 while
\* another request is suspended inside the loader.
C4_Witness ==
  \E i, j \in Slots :
    /\ Done(i) /\ reqs[i].in.route = "compress" /\ reqs[i].in.url = Str(<<>>)
    /\ reqs[i].in.base64 = Undef /\ reqs[i].out.status = 400
    /\ reqs[j].pc = "awaitImport" /\ sharpLoaded /\ sharp = "null"

\* The bytes an upload resolves to are none: nothing from the stream, files,
\* body or body.file, or a buffer of length 0 (and the stream did not fail).
EmptyPayload(in) ==
  /\ in.route = "upload"
  /\ ~(in.stream.readable /\ in.world = "streamError")
  /\ LET b == UploadBytes(in) IN ~b.set \/ b.len = 0

\* C5 as stated: every upload with an empty payload is answered 400.
C5_EmptyUploadIs400 ==
  \A i \in Slots :
    Done(i) /\ EmptyPayload(reqs[i].in) => reqs[i].out.status = 400

\* C5 as amended: an upload with an empty payload is answered 400 when the
\* loader returned a handle (loadSharp builds), or always (getSharp build,
\* which checks the payload before it loads), provided format is absent or a
\* string.  In the loadSharp builds it is answered 503 when the loader
\* returned no handle; a format that is not a string gives 500.
C5_EmptyUploadAnswer ==
  \A i \in Slots :
    Done(i) /\ EmptyPayload(reqs[i].in) =>
      reqs[i].out.status =
        IF variant # "get" /\ reqs[i].res.sharp = "null" THEN 503
        ELSE IF FormatOf(reqs[i].in).t # "string" THEN 500
        ELSE 400

\* C5 witness: an upload whose only source is a zero-length Buffer in
\* files.file has been answered 400 by a build whose loader returned a handle.
C5_Witness ==
  \E i \in Slots :
    /\ Done(i) /\ EmptyPayload(reqs[i].in) /\ reqs[i].in.files = Buf(0)
    /\ reqs[i].res.called /\ reqs[i].res.sharp # "null"
    /\ reqs[i].out.status = 400

\* The quality a client asked for, as the value 0, -5 or 150 (number or text).
AsksQuality(in, text) ==
  IF in.route = "compress" THEN in.quality \in {Num(text), Str(text)}
  ELSE in.quality = Str(text) \/
       (in.quality = Undef /\ BodyField(in.body, "quality") \in {Num(text), Str(text)})

\* C6: whenever an encoder is called, its quality is an integer in [1,100];
\* a requested 0, -5 or 150 reaches it as 1, 1 or 100.
C6_QualityClamped ==
  \A i \in Slots :
    Done(i) /\ reqs[i].out.encoder # "none" =>
      LET q == reqs[i].out.quality
          in == reqs[i].in
      IN /\ ~q.nan /\ 1 <= q.v /\ q.v <= 100
         /\ AsksQuality(in, <<"0">>) => q.v = 1
         /\ AsksQuality(in, <<"-", "5">>) => q.v = 1
         /\ AsksQuality(in, <<"1", "5", "0">>) => q.v = 100

\* The Content-Type that names an encoding.
TypeOfEncoder(encoder) ==
  <<"i", "m", "a", "g", "e", "/">> \o
    (CASE encoder = "webp" -> Webp [] encoder = "png" -> Png [] OTHER -> Jpeg)

\* C7: every successful compression carries the Content-Type of the format
\* its bytes were encoded in.
C7_ContentTypeNamesEncoding ==
  \A i \in Slots :
    Done(i) /\ reqs[i].out.status = 200 /\ reqs[i].out.kind = "image" =>
      reqs[i].out.ctype = TypeOfEncoder(reqs[i].out.encoder)

\* The format parameter a client sent: the body's on /compress; the query's,
\* else the body's, on /compress/upload.  An empty text is no format.
SentFormat(in) ==
  IF in.route = "compress" THEN in.format
  ELSE IF in.format # Undef /\ in.format # Str(<<>>) THEN in.format
  ELSE BodyField(in.body, "format")

\* The spellings of webp and png in the letters of the model.
IsWord(s, lower, upper) ==
  /\ Len(s) = Len(lower)
  /\ \A k \in 1..Len(s) : s[k] = lower[k] \/ s[k] = upper[k]

\* C8: the encoder called is WebP for webp and PNG for png in any letter
\* case, JPEG for every other format; with no format it is PNG on /compress
\* and JPEG on /compress/upload.  Every successful compression called one.
C8_EncoderSelection ==
  \A i \in Slots :
    Done(i) =>
      LET in == reqs[i].in
          f == SentFormat(in)
          e == reqs[i].out.encoder
      IN /\ reqs[i].out.kind = "image" => e # "none"
         /\ e # "none" =>
              IF f = Undef THEN e = (IF in.route = "compress" THEN "png" ELSE "jpeg")
              ELSE IF IsWord(f.s, Webp, <<"W", "E", "B", "P">>) THEN e = "webp"
              ELSE IF IsWord(f.s, Png, <<"P", "N", "G">>) THEN e = "png"
              ELSE e = "jpeg"

\* C8 witness: a request for format 'WebP' has been encoded by the WebP
\* encoder, and answered 200.
C8_Witness ==
  \E i \in Slots :
    /\ Done(i) /\ reqs[i].in.format = Str(<<"W", "e", "b", "P">>)
    /\ reqs[i].out.encoder = "webp" /\ reqs[i].out.status = 200

\* C9: POST /compress hands bytes to the capability only when exactly one of
\* url and base64 is present.
C9_ExactlyOneSource ==
  \A i \in Slots :
    Done(i) /\ reqs[i].in.route = "compress" /\ reqs[i].out.sharpCalls > 0 =>
      Truthy(reqs[i].in.url) # Truthy(reqs[i].in.base64)

\* A dimension was supplied with the request.
Supplied(v) == v # Undef

\* C10: whenever the capability is invoked, resize is requested exactly when
\* width or height was supplied; it is requested with fit 'inside' and
\* withoutEnlargement true, with the supplied dimensions and no others.
C10_ResizePolicy ==
  \A i \in Slots :
    Done(i) /\ reqs[i].out.sharpCalls > 0 =>
      LET in == reqs[i].in
          rs == reqs[i].out.resize
      IN /\ rs.called <=> (Supplied(in.width) \/ Supplied(in.height))
         /\ rs.called =>
              /\ rs.fit = "inside" /\ rs.withoutEnlargement
              /\ rs.w.given <=> Supplied(in.width)
              /\ rs.h.given <=> Supplied(in.height)
              /\ rs.w.given => rs.w.n = ParseInt(in.width) /\ ~rs.w.n.nan /\ rs.w.n.v > 0
              /\ rs.h.given => rs.h.n = ParseInt(in.height) /\ ~rs.h.n.nan /\ rs.h.n.v > 0

\* C10 witness: a successful compression that was given a width and no
\* height requested resize(width, none), and one given neither requested none.
C10_Witness ==
  \E i \in Slots :
    /\ Done(i) /\ reqs[i].out.status = 200
    /\ reqs[i].in.width = Str(<<"1", "2", "0">>) /\ reqs[i].in.height = Undef
    /\ reqs[i].out.resize.called /\ reqs[i].out.resize.w.n = Int_(120)
    /\ ~reqs[i].out.resize.h.given

\* The text is one or more decimal digits.
AllDigits(s) == Len(s) > 0 /\ \A k \in 1..Len(s) : s[k] \in DOMAIN DigitVal

\* The header has the form [-]d+.dd%
RatioForm(h) ==
  LET b == IF Len(h) > 0 /\ Head(h) = "-" THEN Tail(h) ELSE h
  IN /\ Len(b) >= 5
     /\ b[Len(b)] = "%"
     /\ b[Len(b) - 3] = "."
     /\ AllDigits(SubSeq(b, 1, Len(b) - 4))
     /\ AllDigits(SubSeq(b, Len(b) - 2, Len(b) - 1))

\* The number a header of that form writes, in hundredths.
RatioHundredths(h) ==
  LET neg == Head(h) = "-"
      b == IF neg THEN Tail(h) ELSE h
      whole == Digits(SubSeq(b, 1, Len(b) - 4), 0, 0).v
      frac == Digits(SubSeq(b, Len(b) - 2, Len(b) - 1), 0, 0).v
  IN IF neg THEN 0 - (100 * whole + frac) ELSE 100 * whole + frac

\* |x|
Abs(x) == IF x < 0 THEN 0 - x ELSE x

\* C11: for every positive original size, the X-Compression-Ratio header is a
\* number with two decimals followed by '%', that number is within half a
\* hundredth of (1 - compressedSize/originalSize) * 100, and it is 0.00% when
\* the two sizes are equal.
C11_RatioHeader ==
  originalSize > 0 =>
    /\ RatioForm(ratioHeader)
    /\ 2 * Abs(RatioHundredths(ratioHeader) * originalSize
                 - 10000 * (originalSize - compressedSize)) <= originalSize
    /\ compressedSize = originalSize =>
         ratioHeader = <<"0", ".", "0", "0", "%">>

\* C11 witness: 32 bytes compressed to 31 carry 3.13% (the ratio 3.125 lies
\* half-way between two hundredths).
C11_Witness ==
  /\ originalSize = 32 /\ compressedSize = 31
  /\ ratioHeader = <<"3", ".", "1", "3", "%">>

\* C12 as stated: for every non-empty credential text, the configuration's
\* username is the text before the first colon and its password all the text
\* after it ('' when there is no colon).
C12_AuthSplitFirstColon ==
  axiosConfig # JsNull /\ parsed.auth # Undef /\ parsed.auth.s # <<>> =>
    LET s == parsed.auth.s
        colons == {k \in 1..Len(s) : s[k] = ":"}
        first == IF colons = {} THEN Len(s) + 1
                 ELSE CHOOSE k \in colons : \A j \in colons : k <= j
    IN /\ "auth" \in DOMAIN axiosConfig
       /\ axiosConfig.auth.username = SubSeq(s, 1, first - 1)
       /\ axiosConfig.auth.password = SubSeq(s, first + 1, Len(s))

\* C13: for every descriptor converted, the configuration's method is the
\* descriptor's, or GET (written 'get') when it has none; its headers are
\* the descriptor's, name for name and value for value, with Cookie set to
\* the cookie string exactly when there is a (non-empty) cookie string; its
\* data is there exactly when the descriptor has a body, and is that body;
\* its params are there exactly when the query mapping is non-empty, and are
\* that mapping; and the descriptor is as the parser returned it.
C13_ConfigOfDescriptor ==
  axiosConfig # JsNull =>
    LET d == parsed
        c == axiosConfig
        hd == IF d.headers = Undef THEN EmptyMap ELSE d.headers.m
        hc == c.headers.m
        cookie == d.cookieString \notin {Undef, Str(<<>>)}
    IN /\ IF d.method \in {Undef, Str(<<>>)}
            THEN c.method.s \in {<<"g", "e", "t">>, <<"G", "E", "T">>}
            ELSE c.method = d.method
       /\ DOMAIN hc = DOMAIN hd \cup (IF cookie THEN {"Cookie"} ELSE {})
       /\ \A n \in DOMAIN hd : ~(cookie /\ n = "Cookie") => hc[n] = hd[n]
       /\ cookie => hc["Cookie"] = d.cookieString
       /\ ("data" \in DOMAIN c) <=> d.data # Undef
       /\ "data" \in DOMAIN c => c.data = d.data
       /\ ("params" \in DOMAIN c) <=> (d.query # Undef /\ DOMAIN d.query.m # {})
       /\ "params" \in DOMAIN c => c.params = d.query
       /\ request = d

\* C13 witness: the descriptor of
\* `curl -X POST https://example.com/api -H "X-Test: 1" -d '{"a":1}'` with a
\* cookie string has been converted: method POST, headers X-Test and Cookie,
\* that body, no params.
C13_Witness ==
  /\ proxyPc = "awaitAxios"
  /\ parsed = Descriptor(Post, XTest, Str(<<"c">>), Str(<<"{", "a", ":", "1", "}">>),
                         Undef, Undef)
  /\ axiosConfig.method = Post
  /\ axiosConfig.headers = Obj(("Cookie" :> Str(<<"c">>)) @@ XTest.m)
  /\ axiosConfig.data = Str(<<"{", "a", ":", "1", "}">>)
  /\ "params" \notin DOMAIN axiosConfig

\* C14: every call of curlProxy that ended without an upstream response
\* (no or unusable curl text, parser failure, conversion failure, network
\* failure) set status 500 and a body { code, message } that has axiosConfig,
\* with the url and method of the conversion and nothing else, exactly when
\* the failure came after the conversion (the network failure).
C14_FailureEnvelope ==
  proxyPc = "done" /\ outcome.t # "response" =>
    /\ ctx.status = 500
    /\ {"code", "message"} \subseteq DOMAIN ctx.body
    /\ DOMAIN ctx.body \subseteq {"code", "message", "axiosConfig"}
    /\ ("axiosConfig" \in DOMAIN ctx.body) <=> outcome.t = "rejects"
    /\ "axiosConfig" \in DOMAIN ctx.body =>
         /\ DOMAIN ctx.body.axiosConfig = {"url", "method"}
         /\ ctx.body.axiosConfig.url = parsed.url
         /\ ctx.body.axiosConfig.method = Or2(parsed.method, Str(<<"g", "e", "t">>))

\* C14 witness: a network failure after the conversion of a POST descriptor
\* has been answered 500 with the configuration's url and method.
C14_Witness ==
  /\ proxyPc = "done" /\ outcome.t = "rejects" /\ ctx.status = 500
  /\ ctx.body.axiosConfig = [url |-> Str(<<"u">>), method |-> Post]

C16_ErrorsShaped ==
  stage = 5 /\ thrown # NoThrow =>
    /\ reply.by = "errorHandler"
    /\ {"error", "status"} \subseteq reply.body
    /\ reply.status = IF thrown.status # 0 THEN thrown.status ELSE 500

\* C17: a POST /compress request whose url was fetched and whose fetch
\* rejected, or gave a response that is not ok, has been answered 500 by the
\* handler's catch (body { error, message }), and the image capability was
\* not called for it.
C17_FetchFailureIs500 ==
  \A i \in Slots :
    Done(i) /\ reqs[i].in.route = "compress" /\ reqs[i].out.fetches > 0
      /\ reqs[i].in.world \in {"fetchReject", "fetchNotOk"} =>
        /\ reqs[i].out.status = 500
        /\ reqs[i].out.kind = "failed"
        /\ reqs[i].out.sharpCalls = 0

\* C17 witness: with the capability loaded, a request whose url answered
\* with a response that is not ok has been answered 500.
C17_Witness ==
  \E i \in Slots :
    /\ Done(i) /\ reqs[i].in.route = "compress" /\ reqs[i].in.url = SomeUrl
    /\ reqs[i].in.world = "fetchNotOk" /\ reqs[i].res.sharp # "null"
    /\ reqs[i].out.fetches = 1 /\ reqs[i].out.status = 500

\* C18 as stated: a property access on the facade that began while the
\* download was in flight, and by whose end the download's response had
\* arrived (ok), returned the module's property.
C18_WaitSeesDownload ==
  facade.pc \in {"returned", "threw"} /\ facade.netAtStart = "inflight"
    /\ facade.netAtEnd = "ok" =>
      facade.result = "value"

\* C20 as stated: a call that found a file that loads made no download; a
\* call that found a file that does not load deleted it and made exactly one
\* download; a file written by a download is there afterwards, and the next
\* process finds it.
C20_CacheThenDownload ==
  /\ trail.found = "good" => trail.fetches = 0 /\ net = "none"
  /\ trail.found = "corrupt" =>
       /\ trail.fetches = 1
       /\ trail.wrote \/ tmpFile = "absent"
  /\ trail.wrote => tmpFile # "absent"
  /\ trail.inherited /\ trail.found # "none" => trail.found # "absent"

\* C20 as amended: as above, except that the file that does not load is
\* unlinked only if the unlink succeeds; if it fails the file stays as it is
\* until the download overwrites it, and the one download is made all the
\* same.
C20_CacheThenDownloadOrKeep ==
  /\ trail.found = "good" => trail.fetches = 0 /\ net = "none"
  /\ trail.found = "corrupt" =>
       /\ trail.fetches = 1
       /\ trail.unlinked \in {"ok", "failed"}
       /\ trail.unlinked = "ok" => trail.wrote \/ tmpFile = "absent"
       /\ trail.unlinked = "failed" /\ ~trail.wrote => tmpFile = "corrupt"
  /\ trail.found = "absent" => trail.fetches = 1
  /\ trail.wrote => tmpFile # "absent"
  /\ trail.inherited /\ trail.found # "none" => trail.found # "absent"

\* C20 witness: a process started after one that downloaded the file has
\* found it, loaded it, and made no download.
C20_Witness ==
  /\ trail.inherited /\ trail.found = "good" /\ trail.fetches = 0
  /\ sharpNative = "module"

\* C19: in the loadSharp builds the load attempts made are, in order, the
\* first strategies of the build's list (async: the import, the three
\* relative require paths, the two absolute paths, the npm package; sync: the
\* local require, the npm package); no attempt follows one that succeeded;
\* the module kept is that of the first strategy that loads; and an error is
\* kept only when every strategy of the list has been tried and none loads.
C19_StrategyOrder ==
  variant # "get" =>
    /\ attempts = SubSeq(Strategies(variant), 1, Len(attempts))
    /\ \A k \in 1..(Len(attempts) - 1) : attempts[k] \notin env
    /\ sharp # "null" => sharp = attempts[Len(attempts)] /\ sharp \in env
    /\ sharpError # NoError =>
         /\ attempts = Strategies(variant)
         /\ \A k \in 1..Len(attempts) : attempts[k] \notin env

\* C19 witness: in a deployment where only the second absolute path and the
\* npm package load, the async loader has tried the import, the relative
\* paths and the absolute paths, in that order, and kept the module of the
\* second absolute path without trying the npm package.
C19_Witness ==
  /\ variant = "async" /\ env = {"abs2", "npm"}
  /\ attempts = <<"import", "rel1", "rel2", "rel3", "abs1", "abs2">>
  /\ sharp = "abs2" /\ sharpError = NoError

\* ------------------------------------------------------------ lazy loading

\* A request that needs the capability or its status: one to be compressed,
\* or GET / of the loadSharp builds, which reports whether it is available.
NeedsLoader(v, in) ==
  \/ NeedsCapability(in)
  \/ in.route = "root" /\ v # "get"

\* Request i stands at, or has come back from, a call of the loader.
CalledLoader(i) == reqs[i].res.called \/ reqs[i].pc = "awaitImport"

\* A request can be received in slot i: the slot is free (and, for the
\* getSharp build, the log of attempts kept here has room).
CanArrive(i) ==
  reqs[i].pc = "idle" /\ (variant = "get" => Len(attempts) < MaxAttempts)

SpecWait == SpecRemote /\ WF_vars(WaitTick) /\ WF_vars(WaitEnds)

\* C22: waitForSharpSync always terminates: a property access that is waiting
\* comes to its end; the time it has waited never exceeds the cap plus one
\* polling interval; and when it returns, it returns the loaded module if
\* sharpNative is set (the access yields the module's property) and else null
\* (the access throws 'still loading').
C22_WaitTerminates ==
  /\ [](facade.elapsed <= MaxWait + CheckInterval)
  /\ [][facade.pc = "waiting" /\ facade'.pc # "waiting" =>
          /\ facade'.pc \in {"returned", "threw"}
          /\ facade'.elapsed = facade.elapsed
          /\ facade'.result = IF sharpNative # "null" THEN "value" ELSE "stillLoading"]_vars
  /\ (facade.pc = "waiting") ~> (facade.pc # "waiting")

\* C22 witness: an access made while the download was in flight has waited
\* past the cap, by less than one polling interval, and has returned null.
C22_Witness ==
  /\ facade.pc = "threw" /\ facade.result = "stillLoading"
  /\ facade.netAtStart = "inflight"
  /\ facade.elapsed > MaxWait /\ facade.elapsed < MaxWait + CheckInterval

\* ----------------------------------------------- the walk and its failures

\* The walk shows an entry found at `depth`: it is not hidden, its stat or
\* its listing succeeds, and a directory lies within the depth limit.
Shown(item, depth, maxDepth) ==
  ~Skipped(item.name) /\ item.ok /\ (item.dir => depth < maxDepth)

\* Every entry on disk below `dir`, with its path, its depth, and whether
\* each directory above it is shown.
RECURSIVE EntriesBelow(_, _, _, _, _)
EntriesBelow(dir, basePath, depth, reached, maxDepth) ==
  UNION {LET item == dir.items[k]
             p == Append(basePath, item.name)
         IN {[path |-> p, item |-> item, depth |-> depth + 1, reached |-> reached]}
              \cup EntriesBelow(item, p, depth + 1,
                                reached /\ Shown(item, depth + 1, maxDepth), maxDepth) :
         k \in 1..Len(dir.items)}

\* The accessible entries: path and type of each entry that is shown and
\* lies below shown directories only.
Accessible(maxDepth) ==
  {<<e.path, IF e.item.dir THEN "directory" ELSE "file">> :
     e \in {e \in EntriesBelow(disk, <<>>, 0, TRUE, maxDepth) :
              e.reached /\ Shown(e.item, e.depth, maxDepth)}}

\* Path and type of every node below the root of a tree.
RECURSIVE NodesBelow(_)
NodesBelow(tree) ==
  UNION {{<<tree.children[k].path, tree.children[k].type>>}
           \cup NodesBelow(tree.children[k]) : k \in 1..Len(tree.children)}

\* C23: a file whose stat throws and a subdirectory that cannot be read are
\* left out of the tree and do not end the walk: whenever the working
\* directory itself can be read, buildDirectoryTree returns a tree whose
\* nodes are exactly the accessible entries (those not hidden, within the
\* depth limit, below directories that are shown); and the status of GET /
\* does not depend on what the disk holds: 200 with the tree where
\* `__dirname` is bound, 500 where reading it throws.
C23_InaccessibleSkipped ==
  page.by # "none" =>
    /\ page.by = "get" => page.status = IF page.scope = "commonjs" THEN 200 ELSE 500
    /\ page.status # 500 =>
         IF disk.ok
           THEN /\ page.tree.type = "directory" /\ page.tree.path = <<>>
                /\ NodesBelow(page.tree) = Accessible(page.maxDepth)
           ELSE page.tree = NullTree

\* C23 witness: the working directory holds a file c whose stat throws, a
\* directory d that cannot be read, a file a, and a directory b holding a
\* file b and a directory a that cannot be read; GET / has answered 200 with
\* the tree of b (with its file b) and a, directory first.
C23_Witness ==
  /\ disk.items = <<File(<<"c">>, FALSE), Unreadable(<<"d">>), File(<<"a">>, TRUE),
                    Dir(<<"b">>, <<File(<<"b">>, TRUE), Unreadable(<<"a">>)>>)>>
  /\ page.by = "get" /\ page.status = 200
  /\ page.tree.children =
       <<[name |-> <<"b">>, path |-> <<<<"b">>>>, type |-> "directory",
          children |-> <<FileNode(<<"b">>, <<<<"b">>, <<"b">>>>)>>],
         FileNode(<<"a">>, <<<<"a">>>>)>>

\* ------------------------------------------------------ upload precedence

\* The source of an upload that stands first in the precedence: the readable
\* request stream, then files.file, then a Buffer body, then body.file.
FirstSource(in) ==
  IF in.stream.readable THEN "stream"
  ELSE IF in.files.k # "undefined" THEN "files"
  ELSE IF in.body.k = "Buffer" THEN "body"
  ELSE IF BodyFile(in.body).k # "undefined" THEN "bodyFile"
  ELSE "none"

\* The same request with every source but the first in precedence taken
\* away (the parameters that a parsed body carries stay).
OnlyFirstSource(in) ==
  LET src == FirstSource(in)
  IN [in EXCEPT
        !.stream = IF src = "stream" THEN @ ELSE NoStream,
        !.files = IF src = "files" THEN @ ELSE NoFile,
        !.body = IF @.k = "object"
                   THEN [@ EXCEPT !.file = IF src = "bodyFile" THEN @ ELSE NoFile]
                 ELSE IF src = "body" THEN @ ELSE NoBody]

\* The stream of the upload was readable and ended without a chunk.
ZeroChunks(in) ==
  in.route = "upload" /\ in.stream.readable /\ in.stream.chunks = 0
    /\ in.world # "streamError"

\* The original statement of C24: an upload whose readable stream ends
\* without a chunk is answered 400.
C24_ZeroChunksIs400 ==
  \A i \in Slots :
    Done(i) /\ ZeroChunks(reqs[i].in) => reqs[i].out.status = 400

\* C24: the bytes and the answer of an upload are those of the same request
\* carrying only its first source in the precedence (readable stream, then
\* files.file, then a Buffer body, then body.file): no other source is
\* consulted.  An upload whose readable stream ends without a chunk is
\* answered 400 whatever the other sources hold, when the handler gets to the
\* source chain: the format parameter is absent or a string and, in the
\* loadSharp builds, the loader returned a handle.
C24_SourcePrecedence ==
  \A i \in Slots :
    Done(i) /\ reqs[i].in.route = "upload" =>
      /\ UploadBytes(reqs[i].in) = UploadBytes(OnlyFirstSource(reqs[i].in))
      /\ reqs[i].out = Handle(variant, OnlyFirstSource(reqs[i].in), reqs[i].res)
      /\ ZeroChunks(reqs[i].in) /\ FormatOf(reqs[i].in).t = "string"
           /\ (variant # "get" => reqs[i].res.sharp # "null")
           => reqs[i].out.status = 400

\* C24 witness: in the async build, with the capability loaded, an upload
\* whose readable stream ended without a chunk, while files.file and
\* body.file each hold a Buffer of image bytes, has been answered 400.
C24_Witness ==
  \E i \in Slots :
    /\ Done(i) /\ variant = "async" /\ reqs[i].res.sharp # "null"
    /\ ZeroChunks(reqs[i].in)
    /\ reqs[i].in.files = Buf(1)
    /\ reqs[i].in.body = BodyObject(Undef, Undef, Buf(1))
    /\ reqs[i].out.status = 400

\* ------------------------------------------------- the remote loader's state

\* The step stays within one process.
SameProcess == trail'.boot = trail.boot

\* C25: within a process the pair (sharpNative, loadingPromise) is set to
\* (null, pending) when sharp.js is evaluated, changes only from there, to
\* (module, null) or to (null, null), and never changes again; the two are
\* never both set in a state in which a property of the facade can be read;
\* and once the download has failed (the `.catch` has run), every property
\* access throws 'load failed' at once, and no download is started.
C25_LoaderState ==
  /\ [](~(sharpNative # "null" /\ loadingPromise # "null"))
  /\ [][SameProcess /\ <<sharpNative, loadingPromise>>' # <<sharpNative, loadingPromise>> =>
          \/ /\ loaderPc = "unloaded"
             /\ <<sharpNative, loadingPromise>> = <<"null", "null">>
             /\ <<sharpNative, loadingPromise>>' = <<"null", "pending">>
          \/ /\ <<sharpNative, loadingPromise>> = <<"null", "pending">>
             /\ <<sharpNative, loadingPromise>>' \in {<<"module", "null">>, <<"null", "null">>}]_vars
  /\ [][SameProcess /\ loaderPc = "failed" =>
          /\ loaderPc' = "failed" /\ net' = net /\ trail'.fetches = trail.fetches
          /\ facade'.pc \in {"idle", "threw"}
          /\ facade'.pc = "threw" =>
               facade'.result = "loadFailed" /\ facade'.elapsed = 0]_vars

\* C25 witness: the download was made once and failed, the `.catch` has run,
\* and a property access made afterwards has thrown 'load failed' without
\* having waited.
C25_Witness ==
  /\ loaderPc = "failed" /\ sharpNative = "null" /\ loadingPromise = "null"
  /\ trail.fetches = 1 /\ net = "error"
  /\ facade.pc = "threw" /\ facade.result = "loadFailed" /\ facade.elapsed = 0
  /\ facade.netAtStart = "error"

====
